---- MODULE Spec2Model ----
(***************************************************************************)
(* Model of src/index.js: a Telegram bot that, for a Solana mint address,  *)
(* reads decimals/supply over RPC, asks Jupiter for a USDC quote, walks a  *)
(* list of Dexscreener endpoints and edits a placeholder message with the  *)
(* merged report.                                                          *)
(*                                                                         *)
(* Strings are sequences of one-character strings.  JavaScript numbers are *)
(* exact decimals m / 10^e kept in lowest form (binary rounding of doubles *)
(* is not modelled); "nan" and "null" are separate kinds.                  *)
(***************************************************************************)
EXTENDS Integers, Sequences, FiniteSets

\* ---------------------------------------------------------------- bounds
\* largest `decimals` value the chain RPC reports for a mint
MaxDecimals == 9
\* most whitespace characters put on either side of a message text
MaxPad == 1

\* ------------------------------------------------------ program constants
UsdcDecimals == 6
MinMintLen == 32
MaxMintLen == 44
NumCandidates == 4

\* ------------------------------------------------------------ characters
Digits == {"0", "1", "2", "3", "4", "5", "6", "7", "8", "9"}
Whitespace == {" "}
\* the character class kept by  replace(/[^0-9.\-]/g, '')
NumericChars == Digits \cup {".", "-"}
\* the base58 alphabet sample used by the message texts ("0" is not in it)
Base58Sample == {"1", "2", "S", "o"}

RECURSIVE Rep(_, _)
Rep(c, n) == IF n = 0 THEN <<>> ELSE <<c>> \o Rep(c, n - 1)

\* ------------------------------------------------------ JavaScript numbers
NullN == [k |-> "null", m |-> 0, e |-> 0]
NaN == [k |-> "nan", m |-> 0, e |-> 0]

RECURSIVE Norm(_, _)
Norm(m, e) ==
  IF e > 0 /\ m % 10 = 0 THEN Norm(m \div 10, e - 1)
  ELSE [k |-> "num", m |-> m, e |-> e]

Int2N(i) == Norm(i, 0)

RECURSIVE Pow10(_)
Pow10(n) == IF n = 0 THEN 1 ELSE 10 * Pow10(n - 1)

Abs(i) == IF i < 0 THEN 0 - i ELSE i

\* x / 10^k
Div10(x, k) == IF x.k = "num" THEN Norm(x.m, x.e + k) ELSE x

\* Math.abs(n) >= 1
AbsGE1(x) == x.k = "num" /\ x.e <= 9 /\ Abs(x.m) >= Pow10(x.e)

\* JavaScript truthiness of a number-or-null
TruthyN(x) == x.k = "num" /\ x.m # 0

DigitVal(c) ==
  CASE c = "0" -> 0 [] c = "1" -> 1 [] c = "2" -> 2 [] c = "3" -> 3
    [] c = "4" -> 4 [] c = "5" -> 5 [] c = "6" -> 6 [] c = "7" -> 7
    [] c = "8" -> 8 [] c = "9" -> 9

DigitChar(d) ==
  CASE d = 0 -> "0" [] d = 1 -> "1" [] d = 2 -> "2" [] d = 3 -> "3"
    [] d = 4 -> "4" [] d = 5 -> "5" [] d = 6 -> "6" [] d = 7 -> "7"
    [] d = 8 -> "8" [] d = 9 -> "9"

RECURSIVE DigitsToInt(_)
DigitsToInt(s) ==
  IF s = <<>> THEN 0
  ELSE 10 * DigitsToInt(SubSeq(s, 1, Len(s) - 1)) + DigitVal(s[Len(s)])

RECURSIVE IntToDigits(_)
IntToDigits(i) ==
  IF i < 10 THEN <<DigitChar(i)>>
  ELSE IntToDigits(i \div 10) \o <<DigitChar(i % 10)>>

\* String.prototype.trim
RECURSIVE TrimLeft(_)
TrimLeft(s) ==
  IF s # <<>> /\ s[1] \in Whitespace THEN TrimLeft(Tail(s)) ELSE s

RECURSIVE TrimRight(_)
TrimRight(s) ==
  IF s # <<>> /\ s[Len(s)] \in Whitespace
  THEN TrimRight(SubSeq(s, 1, Len(s) - 1)) ELSE s

Trim(s) == TrimRight(TrimLeft(s))

IsDigit(c) == c \in Digits
IsDot(c) == c = "."

\* Number(<string>) for decimal literals: "" is 0, an optional leading "-",
\* digits with at most one ".", at least one digit; anything else is NaN.
\* (Exponent, hex and "Infinity" literals do not occur in the inputs used.)
StrToNumber(str) ==
  LET t == Trim(str)
      neg == t # <<>> /\ t[1] = "-"
      body == IF neg THEN Tail(t) ELSE t
      digs == SelectSeq(body, IsDigit)
      dots == SelectSeq(body, IsDot)
      dotAt == CHOOSE i \in 1..Len(body) : body[i] = "."
      frac == IF dots = <<>> THEN 0 ELSE Len(body) - dotAt
      mag == DigitsToInt(digs)
  IN  IF t = <<>> THEN Int2N(0)
      ELSE IF Len(digs) + Len(dots) # Len(body) \/ Len(dots) > 1 \/ digs = <<>>
           THEN NaN
           ELSE Norm(IF neg THEN 0 - mag ELSE mag, frac)

\* ------------------------------------------------------- JavaScript values
\* a JSON field: undefined/null, a string, or a number
Undef == [t |-> "undef", s |-> <<>>, n |-> NullN]
Str(s) == [t |-> "str", s |-> s, n |-> NullN]
Num(i) == [t |-> "num", s |-> <<>>, n |-> Int2N(i)]

Truthy(v) ==
  CASE v.t = "undef" -> FALSE
    [] v.t = "str" -> v.s # <<>>
    [] v.t = "num" -> TruthyN(v.n)

\* a ?? b
Coalesce(a, b) == IF a.t # "undef" THEN a ELSE b

\* String(v) for the values that occur (strings and non-negative integers)
JsString(v) ==
  CASE v.t = "str" -> v.s
    [] v.t = "num" -> IntToDigits(v.n.m)
    [] v.t = "undef" -> <<"u", "n", "d", "e", "f", "i", "n", "e", "d">>

\* Number(v)
ToNumber(v) ==
  CASE v.t = "str" -> StrToNumber(v.s)
    [] v.t = "num" -> v.n
    [] v.t = "undef" -> NaN

\* ------------------------------------------------------------ formatNumber
Round2(x) ==
  IF x.e <= 2 THEN x
  ELSE LET half == 5 * Pow10(x.e - 3)
           mag == (Abs(x.m) + half) \div Pow10(x.e - 2)
       IN  Norm(IF x.m < 0 THEN 0 - mag ELSE mag, 2)

\* the text produced for a value: the style says which conversion made it
\* ("locale2": toLocaleString with at most 2 fraction digits, "prec6":
\* toPrecision(6)), v is the number the digits stand for
formatNumber(n) ==
  IF n.k = "null" THEN [style |-> "N/A", v |-> NullN]
  ELSE IF AbsGE1(n) THEN [style |-> "locale2", v |-> Round2(n)]
  ELSE [style |-> "prec6", v |-> n]

\* ------------------------------------------------------------ looksLikeMint
looksLikeMint_noUpperBound(text) ==
  IF text = <<>> THEN FALSE
  ELSE LET t == Trim(text)
       IN  Len(t) >= MinMintLen

looksLikeMint(text) ==
  IF text = <<>> THEN FALSE
  ELSE LET t == Trim(text)
       IN  Len(t) >= MinMintLen /\ Len(t) <= MaxMintLen

\* -------------------------------------------------------------- getMintInfo
NullMintInfo == [nul |-> TRUE, decimals |-> NullN, supply |-> NullN]

\* rpc: [kind, decimals, supply]; kind "throw" is a failed or rejected call,
\* "novalue" an unknown account, "value" an account whose parsed path holds
\* the given decimals (a number or absent) and supply (a string or absent)
getMintInfo(rpc) ==
  IF rpc.kind # "value" THEN NullMintInfo
  ELSE LET decimals == IF rpc.decimals.t = "undef" THEN NullN
                       ELSE ToNumber(rpc.decimals)
           asNum == ToNumber(rpc.supply)
           supply == IF rpc.supply.t # "undef" /\ decimals.k # "null"
                     THEN IF asNum.k # "nan" THEN Div10(asNum, decimals.m)
                          ELSE NullN
                     ELSE NullN
       IN  [nul |-> FALSE, decimals |-> decimals, supply |-> supply]

\* ------------------------------------------------------ getPriceFromJupiter
NoRoute == [present |-> FALSE, outAmount |-> Undef]
Route(oa) == [present |-> TRUE, outAmount |-> oa]

\* (list && list[0]): the first element of a route list, if there is one
FirstOf(list) == IF list = <<>> THEN NoRoute ELSE list[1]

\* (body?.data?.routes && body.data.routes[0]) || (body?.routes && body.routes[0]) || null
SelectRoute_topFirst(body) ==
  IF FirstOf(body.routes).present THEN FirstOf(body.routes)
  ELSE FirstOf(body.dataRoutes)

SelectRoute(body) ==
  IF FirstOf(body.dataRoutes).present THEN FirstOf(body.dataRoutes)
  ELSE FirstOf(body.routes)

\* the try block once the response is in; decimals may be null (decimals ?? 0)
getPriceFromJupiter(body, decimals) ==
  LET amountExp == IF decimals.k = "null" THEN 0 ELSE decimals.m
      route == SelectRoute(body)
      outAmount == Coalesce(body.outAmount, body.dataOutAmount)
  IN  IF ~route.present
      THEN IF ~Truthy(outAmount) THEN NullN
           ELSE Div10(ToNumber(outAmount), amountExp)
      ELSE IF ~Truthy(route.outAmount) THEN NullN
           ELSE Div10(ToNumber(route.outAmount), UsdcDecimals)

\* ------------------------------------------------------- getDexscreenerData
NullSnap == [nul |-> TRUE, name |-> Undef, symbol |-> Undef, price |-> NullN,
             liquidity |-> NullN, volume24h |-> NullN, url |-> Undef]

IsNumericChar(c) == c \in NumericChars

\* x ? Number(String(x).replace(/[^0-9.\-]/g,'')) : null
NumField(v) ==
  IF Truthy(v) THEN StrToNumber(SelectSeq(JsString(v), IsNumericChar))
  ELSE NullN

NoList == [has |-> FALSE, items |-> <<>>]
List(items) == [has |-> TRUE, items |-> items]

NullItem == [isNull |-> TRUE, name |-> Undef, tokenName |-> Undef,
             symbol |-> Undef, tokenSymbol |-> Undef, price |-> Undef,
             liquidity |-> Undef, volume24h |-> Undef,
             dexScreenerUrl |-> Undef, url |-> Undef]

\* body?.pairs || body?.pairsList || body?.data?.pairs || body?.data
\* (an array is truthy even when empty)
MaybePairs(body) ==
  IF body.kind # "object" THEN NoList
  ELSE IF body.pairs.has THEN body.pairs
  ELSE IF body.pairsList.has THEN body.pairsList
  ELSE IF body.dataPairs.has THEN body.dataPairs
  ELSE body.data

\* shape (a): the body is a non-empty array, p = body[0]
SnapFromArray(p) ==
  [nul |-> FALSE, name |-> Coalesce(p.name, p.tokenName),
   symbol |-> Coalesce(p.symbol, p.tokenSymbol), price |-> NumField(p.price),
   liquidity |-> NumField(p.liquidity), volume24h |-> NumField(p.volume24h),
   url |-> Coalesce(p.dexScreenerUrl, p.url)]

\* shapes (b) and (c): optional chaining on p, no tokenName/tokenSymbol
SnapFromFields(p) ==
  [nul |-> FALSE, name |-> p.name, symbol |-> p.symbol,
   price |-> NumField(p.price), liquidity |-> NumField(p.liquidity),
   volume24h |-> NumField(p.volume24h),
   url |-> Coalesce(p.dexScreenerUrl, p.url)]

Continue(why) == [result |-> "continue", why |-> why, snap |-> NullSnap]
Return(snap) == [result |-> "return", why |-> "hit", snap |-> snap]

\* one iteration of the loop over tryUrls, given what axios.get produced
ParseCandidate(resp) ==
  LET body == resp.body
      maybePairs == MaybePairs(body)
  IN  IF resp.status = "error" THEN Continue("error")
      ELSE IF body.kind = "falsy" THEN Continue("nobody")
      ELSE IF body.kind = "array" /\ body.arr # <<>>
           THEN IF body.arr[1].isNull THEN Continue("error")
                ELSE Return(SnapFromArray(body.arr[1]))
      ELSE IF maybePairs.has /\ maybePairs.items # <<>>
           THEN Return(SnapFromFields(maybePairs.items[1]))
      ELSE IF body.kind = "object"
              /\ (Truthy(body.price) \/ Truthy(body.liquidity)
                  \/ Truthy(body.volume24h))
           THEN Return(SnapFromFields(body))
      ELSE Continue("nomatch")

\* the catch of the inner try and the end of the loop body: go on to the
\* next url, or leave the loop (0) after the last one
NextCandidate_abort(idx) == 0

NextCandidate(idx) == IF idx < NumCandidates THEN idx + 1 ELSE 0

\* ------------------------------------------------------------------ reply
Unknown == [label |-> "Unknown", usd |-> FALSE, style |-> "none", v |-> NullN]
NotAvailable ==
  [label |-> "Not available", usd |-> FALSE, style |-> "none", v |-> NullN]
Raw(n) == [label |-> "value", usd |-> FALSE, style |-> "raw", v |-> n]
Plain(n) ==
  [label |-> "value", usd |-> FALSE, style |-> formatNumber(n).style,
   v |-> formatNumber(n).v]
Usd(n) ==
  [label |-> "value", usd |-> TRUE, style |-> formatNumber(n).style,
   v |-> formatNumber(n).v]

RenderDecimals(decimals) ==
  IF decimals.k # "null" THEN Raw(decimals) ELSE Unknown

RenderSupply(supply) == IF supply.k # "null" THEN Plain(supply) ELSE Unknown

\* priceUsd !== null ? $priceUsd : (dexData?.price ? $dexData.price : 'Not available')
RenderPrice_dexFirst(priceUsd, dexData) ==
  IF TruthyN(dexData.price) THEN Usd(dexData.price)
  ELSE IF priceUsd.k # "null" THEN Usd(priceUsd)
  ELSE NotAvailable

RenderPrice(priceUsd, dexData) ==
  IF priceUsd.k # "null" THEN Usd(priceUsd)
  ELSE IF TruthyN(dexData.price) THEN Usd(dexData.price)
  ELSE NotAvailable

\* dexData?.x ? $x : 'Not available'
RenderDexField(x) == IF TruthyN(x) THEN Usd(x) ELSE NotAvailable

NoReport == [sent |-> FALSE, decimals |-> Unknown, supply |-> Unknown,
             price |-> NotAvailable, liquidity |-> NotAvailable,
             volume24h |-> NotAvailable]

BuildReply(mintInfo, priceUsd, dexData) ==
  [sent |-> TRUE, decimals |-> RenderDecimals(mintInfo.decimals),
   supply |-> RenderSupply(mintInfo.supply),
   price |-> RenderPrice(priceUsd, dexData),
   liquidity |-> RenderDexField(dexData.liquidity),
   volume24h |-> RenderDexField(dexData.volume24h)]

\* ------------------------------------------------------------- the inputs
Start == <<"/", "s", "t", "a", "r", "t">>
Help == <<"/", "h", "e", "l", "p">>
\* So11111111111111111111111111111111111111112, the wrapped native mint
WrappedSol == <<"S", "o">> \o Rep("1", 40) \o <<"2">>
\* the 32-character all-"1" key (32 zero bytes)
SystemKey == Rep("1", MinMintLen)

\* message texts before padding: empty, commands, too short, too long,
\* right length but not a key, and two keys
Cores ==
  {<<>>, Start, Help, Rep("1", MinMintLen - 1), Rep("1", MaxMintLen + 1),
   Rep("1", MinMintLen + 1), Rep("0", 40), Rep("1", MaxMintLen),
   SystemKey, WrappedSol}

Messages ==
  {Rep(" ", a) \o c \o Rep(" ", b) : a \in 0..MaxPad, b \in 0..MaxPad, c \in Cores}

IsBase58(c) == c \in Base58Sample

\* new PublicKey(text) does not throw: every character is base58 and the
\* payload is 32 bytes.  Of the texts above only the two keys decode to 32
\* bytes (n characters "1" are n zero bytes).
PublicKeyOk(t) ==
  /\ SelectSeq(t, IsBase58) = t
  /\ t \in {SystemKey, WrappedSol}

\* try { new PublicKey(text) } catch { return sendMessage(...) }
KeyRejected_swallowed(t) == FALSE

KeyRejected(t) == ~PublicKeyOk(t)

\* what connection.getParsedAccountInfo can produce
RpcResponses ==
  {[kind |-> "throw", decimals |-> Undef, supply |-> Undef],
   [kind |-> "novalue", decimals |-> Undef, supply |-> Undef]}
  \cup
  [kind : {"value"},
   decimals : {Undef, Num(0), Num(UsdcDecimals), Num(MaxDecimals)},
   supply : {Undef, Str(<<"5", "0", "0", "0">>), Str(<<"a">>)}]

EmptyQuote == [dataRoutes |-> <<>>, routes |-> <<>>, outAmount |-> Undef,
               dataOutAmount |-> Undef]

\* what the quote endpoint can answer with
QuoteBodies ==
  [dataRoutes : {<<>>, <<Route(Str(<<>>))>>, <<Route(Str(<<"7">>))>>},
   routes : {<<>>, <<Route(Str(<<"0">>))>>,
             <<Route(Str(<<"2", "5", "0", "0", "0", "0", "0">>))>>,
             <<Route(Str(<<"a">>))>>},
   outAmount : {Undef, Str(<<"0">>),
                Str(<<"3", "0", "0", "0", "0", "0", "0">>)},
   dataOutAmount : {Undef, Str(<<"4">>)}]

QuoteServices ==
  [status : {"ok"}, body : QuoteBodies]
  \cup [status : {"error", "hang"}, body : {EmptyQuote}]

Item == [NullItem EXCEPT !.isNull = FALSE]

EmptyObject ==
  [kind |-> "object", arr |-> <<>>, pairs |-> NoList, pairsList |-> NoList,
   dataPairs |-> NoList, data |-> NoList, name |-> Undef, symbol |-> Undef,
   price |-> Undef, liquidity |-> Undef, volume24h |-> Undef,
   dexScreenerUrl |-> Undef, url |-> Undef]

ArrayBody(items) == [EmptyObject EXCEPT !.kind = "array", !.arr = items]

Ok(body) == [status |-> "ok", body |-> body]

\* what a Dexscreener endpoint can answer with
DexResponses ==
  {[status |-> "error", body |-> EmptyObject],
   Ok([EmptyObject EXCEPT !.kind = "falsy"]),
   \* a listing whose first entry has none of the wanted fields
   Ok(ArrayBody(<<[Item EXCEPT !.url = Str(<<"u">>)]>>)),
   Ok(ArrayBody(<<[Item EXCEPT !.tokenName = Str(<<"T">>),
                               !.price = Str(<<"1", ".", "5">>),
                               !.liquidity = Str(<<"$", "2", "5", "0", "0">>),
                               !.volume24h = Num(300)]>>)),
   Ok(ArrayBody(<<NullItem>>)),
   Ok(ArrayBody(<<>>)),
   Ok([EmptyObject EXCEPT !.pairs =
         List(<<[Item EXCEPT !.name = Str(<<"N">>), !.price = Str(<<"0">>),
                             !.liquidity = Str(<<"a">>),
                             !.volume24h = Str(<<"1", ".", "2", ".", "3">>)]>>)]),
   Ok([EmptyObject EXCEPT !.pairsList = List(<<NullItem>>)]),
   Ok([EmptyObject EXCEPT !.data = List(<<[Item EXCEPT !.price = Str(<<"7">>)]>>)]),
   Ok([EmptyObject EXCEPT !.price = Str(<<"0", ".", "5">>),
                          !.symbol = Str(<<"S">>)]),
   Ok(EmptyObject)}

\* ------------------------------------------------------------------ state
VARIABLES
  pc,        \* where the message handler is
  text,      \* msg.text trimmed
  sent,      \* chat messages sent or edited, in order
  calls,     \* chain-RPC, quote and market-data requests issued, in order
  rpcHangs,  \* the chain RPC never answers this request
  dexHangs,  \* the market-data host never answers this request
  jup,       \* what the quote service does with this request
  mintInfo,
  priceUsd,
  dexIdx,    \* position in tryUrls, 1..NumCandidates
  dexLog,    \* what each url tried so far came to
  dexData,
  report     \* the reply passed to editMessageText

vars == <<pc, text, sent, calls, rpcHangs, dexHangs, jup, mintInfo, priceUsd,
          dexIdx, dexLog, dexData, report>>

Init ==
  /\ pc = "idle"
  /\ text = <<>>
  /\ sent = <<>>
  /\ calls = <<>>
  /\ rpcHangs = FALSE
  /\ dexHangs = FALSE
  /\ jup = [status |-> "error", body |-> EmptyQuote]
  /\ mintInfo = NullMintInfo
  /\ priceUsd = NullN
  /\ dexIdx = 0
  /\ dexLog = <<>>
  /\ dexData = NullSnap
  /\ report = NoReport

fetchVars == <<rpcHangs, dexHangs, jup, mintInfo, priceUsd, dexIdx, dexLog,
               dexData, report>>

\* if (!text) return;
ReceiveEmpty ==
  /\ pc = "idle"
  /\ \E raw \in Messages :
     /\ Trim(raw) = <<>>
     /\ pc' = "done"
     /\ text' = Trim(raw)
     /\ UNCHANGED <<sent, calls, fetchVars>>

\* /start and /help
ReceiveHelp ==
  /\ pc = "idle"
  /\ \E raw \in Messages :
     /\ Trim(raw) \in {Start, Help}
     /\ pc' = "done"
     /\ text' = Trim(raw)
     /\ sent' = Append(sent, "help")
     /\ UNCHANGED <<calls, fetchVars>>

ReceiveNotMint ==
  /\ pc = "idle"
  /\ \E raw \in Messages :
     /\ Trim(raw) # <<>>
     /\ Trim(raw) \notin {Start, Help}
     /\ ~looksLikeMint(Trim(raw))
     /\ pc' = "done"
     /\ text' = Trim(raw)
     /\ sent' = Append(sent, "pleaseValid")
     /\ UNCHANGED <<calls, fetchVars>>

ReceiveInvalidKey ==
  /\ pc = "idle"
  /\ \E raw \in Messages :
     /\ Trim(raw) # <<>>
     /\ Trim(raw) \notin {Start, Help}
     /\ looksLikeMint(Trim(raw))
     /\ KeyRejected(Trim(raw))
     /\ pc' = "done"
     /\ text' = Trim(raw)
     /\ sent' = Append(sent, "invalidKey")
     /\ UNCHANGED <<calls, fetchVars>>

\* the address is accepted and the loading placeholder is sent; the state of
\* the three services for this request is fixed here
ReceiveAccepted ==
  /\ pc = "idle"
  /\ \E raw \in Messages, q \in QuoteServices, rh \in BOOLEAN, dh \in BOOLEAN :
     /\ Trim(raw) # <<>>
     /\ Trim(raw) \notin {Start, Help}
     /\ looksLikeMint(Trim(raw))
     /\ ~KeyRejected(Trim(raw))
     /\ pc' = "await_loading"
     /\ text' = Trim(raw)
     /\ sent' = Append(sent, "loading")
     /\ jup' = q
     /\ rpcHangs' = rh
     /\ dexHangs' = dh
     /\ UNCHANGED <<calls, mintInfo, priceUsd, dexIdx, dexLog, dexData, report>>

\* sendMessage resolved; getMintInfo issues getParsedAccountInfo
LoadingSent ==
  /\ pc = "await_loading"
  /\ pc' = "await_rpc"
  /\ calls' = Append(calls, "rpc")
  /\ UNCHANGED <<text, sent, fetchVars>>

DexCall(i) ==
  CASE i = 1 -> "dex1" [] i = 2 -> "dex2" [] i = 3 -> "dex3" [] i = 4 -> "dex4"
    [] OTHER -> "dex5"

\* priceUsd = (decimals !== null) ? await getPriceFromJupiter(...) : null
NeedsQuote_always(mi) == TRUE

NeedsQuote(mi) == mi.decimals.k # "null"

\* getParsedAccountInfo settled
RpcRespond ==
  /\ pc = "await_rpc"
  /\ ~rpcHangs
  /\ \E r \in RpcResponses : mintInfo' = getMintInfo(r)
  /\ IF NeedsQuote(mintInfo')
     THEN /\ pc' = "await_jupiter"
          /\ calls' = Append(calls, "jupiter")
          /\ UNCHANGED dexIdx
     ELSE /\ pc' = "await_dex"
          /\ calls' = Append(calls, DexCall(1))
          /\ dexIdx' = 1
  /\ UNCHANGED <<text, sent, rpcHangs, dexHangs, jup, priceUsd, dexLog,
                 dexData, report>>

\* the quote request settled: a body, or an error caught by the catch
JupiterRespond ==
  /\ pc = "await_jupiter"
  /\ jup.status \in {"ok", "error"}
  /\ priceUsd' = IF jup.status = "ok"
                 THEN getPriceFromJupiter(jup.body, mintInfo.decimals)
                 ELSE NullN
  /\ pc' = "await_dex"
  /\ calls' = Append(calls, DexCall(1))
  /\ dexIdx' = 1
  /\ UNCHANGED <<text, sent, rpcHangs, dexHangs, jup, mintInfo, dexLog,
                 dexData, report>>

\* axios gives up after timeout: 10000
JupiterTimeout ==
  /\ pc = "await_jupiter"
  /\ jup.status = "hang"
  /\ priceUsd' = NullN
  /\ pc' = "await_dex"
  /\ calls' = Append(calls, DexCall(1))
  /\ dexIdx' = 1
  /\ UNCHANGED <<text, sent, rpcHangs, dexHangs, jup, mintInfo, dexLog,
                 dexData, report>>

\* one url of tryUrls settled with outcome r; on the last url or on a hit
\* the reply is built and editMessageText is called
DexStep(r) ==
  LET nxt == NextCandidate(dexIdx)
      over == r.result = "return" \/ nxt = 0
  IN  /\ dexLog' = Append(dexLog, r.why)
      /\ IF over
         THEN /\ dexData' = r.snap
              /\ report' = BuildReply(mintInfo, priceUsd, r.snap)
              /\ sent' = Append(sent, "edit")
              /\ pc' = "done"
              /\ UNCHANGED <<calls, dexIdx>>
         ELSE /\ calls' = Append(calls, DexCall(nxt))
              /\ dexIdx' = nxt
              /\ UNCHANGED <<dexData, report, sent, pc>>
      /\ UNCHANGED <<text, rpcHangs, dexHangs, jup, mintInfo, priceUsd>>

DexRespond ==
  /\ pc = "await_dex"
  /\ ~dexHangs
  /\ \E resp \in DexResponses : DexStep(ParseCandidate(resp))

\* axios gives up after timeout: 8000; the inner catch continues
DexTimeout ==
  /\ pc = "await_dex"
  /\ dexHangs
  /\ DexStep(Continue("error"))

\* the handler returned; the next message starts from fresh locals
NextMessage ==
  /\ pc = "done"
  /\ pc' = "idle"
  /\ text' = <<>>
  /\ sent' = <<>>
  /\ calls' = <<>>
  /\ rpcHangs' = FALSE
  /\ dexHangs' = FALSE
  /\ jup' = [status |-> "error", body |-> EmptyQuote]
  /\ mintInfo' = NullMintInfo
  /\ priceUsd' = NullN
  /\ dexIdx' = 0
  /\ dexLog' = <<>>
  /\ dexData' = NullSnap
  /\ report' = NoReport

Next ==
  \/ ReceiveEmpty
  \/ ReceiveHelp
  \/ ReceiveNotMint
  \/ ReceiveInvalidKey
  \/ ReceiveAccepted
  \/ LoadingSent
  \/ RpcRespond
  \/ JupiterRespond
  \/ JupiterTimeout
  \/ DexRespond
  \/ DexTimeout
  \/ NextMessage

Spec == Init /\ [][Next]_vars

\* the event loop runs a callback that is ready
FairSpec == Spec /\ WF_vars(Next)

\* ================================================================ claims
InSeq(x, s) == \E i \in 1..Len(s) : s[i] = x

\* the handler is past the quote request, which got a body
Quoted == pc \in {"await_dex", "done"} /\ InSeq("jupiter", calls) /\ jup.status = "ok"

\* the output amount the code reads from the quote body
PickedOutAmount ==
  IF SelectRoute(jup.body).present THEN SelectRoute(jup.body).outAmount
  ELSE Coalesce(jup.body.outAmount, jup.body.dataOutAmount)

\* the price shown when there is no quote
Fallback == IF TruthyN(dexData.price) THEN Usd(dexData.price) ELSE NotAvailable

\* C1: a message whose trimmed text is shorter than 32 or longer than 44
\* characters is refused by looksLikeMint and its handler ends without any
\* chain-RPC, quote or market-data request.
C1_OutOfRangeNoNetwork ==
  (pc # "idle" /\ (Len(text) < MinMintLen \/ Len(text) > MaxMintLen))
    => /\ ~looksLikeMint(text)
       /\ pc = "done"
       /\ calls = <<>>
       /\ ~InSeq("loading", sent)

C1_Witness ==
  /\ pc = "done"
  /\ Len(text) > MaxMintLen
  /\ sent = <<"pleaseValid">>
  /\ calls = <<>>

\* C2: a text that passes the length pre-filter but is not a public key gets
\* the invalid-key rejection, no loading placeholder and no fetcher call.
C2_InvalidKeyNoFetch ==
  (pc # "idle" /\ looksLikeMint(text) /\ ~PublicKeyOk(text))
    => /\ pc = "done"
       /\ sent = <<"invalidKey">>
       /\ calls = <<>>
       /\ ~report.sent

C2_Witness ==
  /\ pc = "done"
  /\ text = Rep("1", MinMintLen + 1)
  /\ sent = <<"invalidKey">>

\* C3 as claimed: a quote price is rendered whatever the market price is;
\* the market price only without a quote; "Not available" only when the
\* quote and MarketSnapshot.price are both absent.
C3_Original ==
  report.sent
    => /\ priceUsd.k # "null" => report.price = Usd(priceUsd)
       /\ priceUsd.k = "null" /\ report.price.label = "value"
            => report.price = Usd(dexData.price)
       /\ report.price = NotAvailable
            => priceUsd.k = "null" /\ dexData.price.k = "null"

\* C3 amended: a quote price is rendered whatever the market price is; the
\* market price only without a quote; "Not available" exactly when the quote
\* is absent and MarketSnapshot.price is absent, zero or not a number.
C3_Amended ==
  report.sent
    => /\ priceUsd.k # "null" => report.price = Usd(priceUsd)
       /\ priceUsd.k = "null" /\ report.price.label = "value"
            => report.price = Usd(dexData.price)
       /\ report.price = NotAvailable
            <=> /\ priceUsd.k = "null"
                /\ \/ dexData.price.k \in {"null", "nan"}
                   \/ dexData.price.m = 0

C3_Witness ==
  /\ report.sent
  /\ priceUsd.k = "num"
  /\ dexData.price.k = "num"
  /\ dexData.price.m # 0
  /\ dexData.price # priceUsd
  /\ report.price = Usd(priceUsd)

MetaFailed == mintInfo.nul
QuoteFailed == jup.status # "ok"
MarketFailed == dexData.nul

\* what the quote fetcher returns for this request's body
QuoteAlone == getPriceFromJupiter(jup.body, mintInfo.decimals)

DexRendered ==
  /\ report.liquidity = RenderDexField(dexData.liquidity)
  /\ report.volume24h = RenderDexField(dexData.volume24h)

MetaRendered ==
  /\ mintInfo.decimals.k # "null"
       => report.decimals.label = "value" /\ report.decimals.v = mintInfo.decimals
  /\ mintInfo.supply.k # "null" => report.supply.label = "value"

\* C4 as claimed: when one fetcher fails the other two are still called and
\* rendered; a failed metadata fetch does not stop the quote price.
C4_Original ==
  report.sent
    => /\ MetaFailed /\ ~QuoteFailed /\ ~MarketFailed
            => /\ InSeq("jupiter", calls)
               /\ QuoteAlone.k # "null" => report.price = Usd(QuoteAlone)
               /\ DexRendered
       /\ QuoteFailed /\ ~MetaFailed /\ ~MarketFailed
            => MetaRendered /\ DexRendered
       /\ MarketFailed /\ ~MetaFailed /\ ~QuoteFailed
            => /\ MetaRendered
               /\ QuoteAlone.k # "null" => report.price = Usd(QuoteAlone)

\* C4 amended: when the quote or the market-data fetcher fails the other two
\* are still called and rendered; when the metadata fetcher fails (or gives
\* no decimals) market data is still fetched and rendered, but the quote
\* fetcher is not called and the price falls back to MarketSnapshot.price.
C4_Amended ==
  report.sent
    => /\ InSeq("rpc", calls) /\ InSeq(DexCall(1), calls)
       /\ mintInfo.decimals.k = "null"
            => /\ ~InSeq("jupiter", calls)
               /\ report.price = Fallback
               /\ DexRendered
       /\ QuoteFailed /\ ~MetaFailed
            => MetaRendered /\ DexRendered /\ report.price = Fallback
       /\ MarketFailed /\ ~QuoteFailed /\ mintInfo.decimals.k # "null"
            => /\ MetaRendered
               /\ InSeq("jupiter", calls)
               /\ QuoteAlone.k # "null" => report.price = Usd(QuoteAlone)

C4_Witness ==
  /\ report.sent
  /\ MetaFailed
  /\ jup.status = "ok"
  /\ QuoteAlone.k = "num"
  /\ TruthyN(dexData.liquidity)
  /\ report.liquidity = Usd(dexData.liquidity)
  /\ report.price = Usd(dexData.price)

AllFailed ==
  /\ Len(dexLog) = NumCandidates
  /\ \A i \in 1..NumCandidates : dexLog[i] = "error"

\* C5: an error on a Dexscreener url makes the fetcher go on to the next url
\* in order; when all four fail the result is null, liquidity and volume
\* (and the price, absent a quote) read "Not available", and decimals and
\* supply from the chain are still shown.
C5_AllCandidatesFail ==
  /\ \A i \in 1..Len(dexLog) :
       dexLog[i] = "error" /\ i < NumCandidates => InSeq(DexCall(i + 1), calls)
  /\ pc = "await_dex" => Len(dexLog) = dexIdx - 1 /\ calls[Len(calls)] = DexCall(dexIdx)
  /\ report.sent /\ AllFailed
       => /\ dexData.nul
          /\ report.liquidity = NotAvailable
          /\ report.volume24h = NotAvailable
          /\ priceUsd.k = "null" => report.price = NotAvailable
          /\ MetaRendered

C5_Witness ==
  /\ report.sent
  /\ AllFailed
  /\ ~dexHangs
  /\ mintInfo.decimals.k = "num"
  /\ mintInfo.supply.k = "num"
  /\ report.decimals.label = "value"
  /\ report.liquidity = NotAvailable

\* C6: the snapshot getDexscreenerData returns comes from a url whose answer
\* has at least one of name, symbol, price, liquidity, volume24h; an answer
\* that matches a shape without any of them is passed over.
C6_Claim ==
  (report.sent /\ ~dexData.nul)
    => \/ Truthy(dexData.name)
       \/ Truthy(dexData.symbol)
       \/ dexData.price.k # "null"
       \/ dexData.liquidity.k # "null"
       \/ dexData.volume24h.k # "null"

\* the shape the claim reads first, then the others, skipping empty amounts
ClaimedPick ==
  LET top == FirstOf(jup.body.routes)
      nested == FirstOf(jup.body.dataRoutes)
  IN  IF top.present /\ Truthy(top.outAmount) THEN <<"route", top.outAmount>>
      ELSE IF nested.present /\ Truthy(nested.outAmount)
           THEN <<"route", nested.outAmount>>
      ELSE IF Truthy(jup.body.outAmount) THEN <<"bare", jup.body.outAmount>>
      ELSE <<"none", Undef>>

C8_Claim ==
  (Quoted /\ priceUsd.k = "num")
    => priceUsd = Div10(ToNumber(PickedOutAmount), UsdcDecimals)

\* C9: getPriceFromJupiter returns null when the request fails, no shape has
\* an output amount, or the output amount is empty or zero (the string "0"
\* too); the rendered price is then MarketSnapshot.price or "Not available".
C9_Claim ==
  (pc \in {"await_dex", "done"} /\ InSeq("jupiter", calls)
     /\ \/ jup.status # "ok"
        \/ ~Truthy(PickedOutAmount)
        \/ ToNumber(PickedOutAmount) = Int2N(0))
    => /\ priceUsd.k = "null"
       /\ report.sent => report.price = Fallback

\* C10: every external call has a timeout, so once the loading placeholder
\* is out the handler gets to edit it with the report even if a dependency
\* never answers.
C10_Claim == (pc = "await_loading") ~> (pc = "done" /\ report.sent)

====
